---- MODULE Spec2Model ----
(***************************************************************************)
(* steelcut: command execution / host abstraction layer and the package    *)
(* manager drivers that sit on top of the Executor.                        *)
(*                                                                         *)
(* Go strings are modelled as sequences of one-character strings, so that  *)
(* strings.Fields, strings.Split, strings.Contains and strings.TrimSpace   *)
(* are computed the way the library computes them.                         *)
(***************************************************************************)
EXTENDS Integers, Sequences, FiniteSets, TLC

(***************************************************************************)
(* Bounds of the model                                                     *)
(***************************************************************************)
\* number of lines in an output text handed back by the Executor
MaxLines == 2
\* longest running time of a remote command, in seconds
MaxDur == 6

(***************************************************************************)
(* Go string library                                                       *)
(***************************************************************************)
\* unicode.IsSpace restricted to the ASCII white space that occurs here
IsSpace(c) == c \in {" ", "\t", "\n", "\r"}

\* the k-th smallest element of a set of positions
Kth(P, k) == CHOOSE p \in P : Cardinality({q \in P : q < p}) = k - 1

\* strings.Fields: the maximal runs of non-space characters, in order
Fields(s) ==
    LET starts == {i \in 1..Len(s) : ~IsSpace(s[i]) /\ (i = 1 \/ IsSpace(s[i - 1]))}
        ends == {i \in 1..Len(s) : ~IsSpace(s[i]) /\ (i = Len(s) \/ IsSpace(s[i + 1]))}
    IN  [k \in 1..Cardinality(starts) |-> SubSeq(s, Kth(starts, k), Kth(ends, k))]

\* strings.Split with a one-character separator: the pieces between the
\* separators, always at least one piece (empty pieces included)
Split(s, sep) ==
    LET seps == {i \in 1..Len(s) : s[i] = sep}
        n == Cardinality(seps) + 1
        first(k) == IF k = 1 THEN 1 ELSE Kth(seps, k - 1) + 1
        last(k) == IF k = n THEN Len(s) ELSE Kth(seps, k) - 1
    IN  [k \in 1..n |-> SubSeq(s, first(k), last(k))]

\* strings.Contains
Contains(s, sub) ==
    \E i \in 1..(Len(s) - Len(sub) + 1) : SubSeq(s, i, i + Len(sub) - 1) = sub

\* strings.TrimSpace: what lies between the first and the last non-space
TrimSpace(s) ==
    LET keep == {i \in 1..Len(s) : ~IsSpace(s[i])}
    IN  IF keep = {} THEN <<>>
        ELSE SubSeq(s, CHOOSE i \in keep : \A j \in keep : i <= j,
                       CHOOSE i \in keep : \A j \in keep : i >= j)

RECURSIVE Join(_, _)
\* strings.Join: the pieces with sep between them
Join(pieces, sep) ==
    IF pieces = <<>> THEN <<>>
    ELSE IF Len(pieces) = 1 THEN pieces[1]
    ELSE pieces[1] \o <<sep>> \o Join(Tail(pieces), sep)

(***************************************************************************)
(* Package manager drivers (package_manager.go)                            *)
(***************************************************************************)
\* "foo/xenial 2.0.1 amd64 [upgradable from: 1.9.3]"
LineAptListing == <<"f","o","o","/","x","e","n","i","a","l"," ","2",".","0",".","1"," ","a","m","d","6","4"," ","[","u","p","g","r","a","d","a","b","l","e"," ","f","r","o","m",":"," ","1",".","9",".","3","]">>
\* "not a valid line"
LineInvalid == <<"n","o","t"," ","a"," ","v","a","l","i","d"," ","l","i","n","e">>
\* "foo/xenial 2.0.1 amd64 all [upgradable from: 1.9.3]"
LineFiveFields == <<"f","o","o","/","x","e","n","i","a","l"," ","2",".","0",".","1"," ","a","m","d","6","4"," ","a","l","l"," ","[","u","p","g","r","a","d","a","b","l","e"," ","f","r","o","m",":"," ","1",".","9",".","3","]">>
\* "vim 9.0"
LinePair == <<"v","i","m"," ","9",".","0">>

\* the lines an output text is made of
Lines == {LineAptListing, LineInvalid, LineFiveFields, LinePair, <<>>}

\* the output texts the Executor may hand back: 1..MaxLines lines joined by "\n"
Outputs == UNION {{Join(ls, "\n") : ls \in [1..n -> Lines]} : n \in 1..MaxLines}

Pkgs == {<<"v","i","m">>, <<"j","q">>}

\* "[upgradable"
TokUpgradable == <<"[","u","p","g","r","a","d","a","b","l","e">>

Update(name, version) == [PackageName |-> name, Version |-> version]

RECURSIVE parseAptLines(_)
parseAptLines(lines) ==
    IF lines = <<>> THEN <<>>
    ELSE LET parts == Fields(Head(lines))
         IN  IF Len(parts) < 5 \/ parts[5] # TokUpgradable
             THEN parseAptLines(Tail(lines))
             ELSE <<Update(Split(parts[1], "/")[1], parts[2])>>
                  \o parseAptLines(Tail(lines))

\* AptPackageManager.parseAptUpdates
parseAptUpdates(output) == parseAptLines(Split(output, "\n"))

RECURSIVE parsePairLines(_)
parsePairLines(lines) ==
    IF lines = <<>> THEN <<>>
    ELSE LET parts == Split(Head(lines), " ")
         IN  IF Len(parts) < 2
             THEN parsePairLines(Tail(lines))
             ELSE <<Update(parts[1], parts[2])>> \o parsePairLines(Tail(lines))

\* parseUpdates and BrewPackageManager.parseUpdates (same body)
parseUpdates(output) == parsePairLines(Split(output, "\n"))


(***************************************************************************)
(* State                                                                   *)
(***************************************************************************)
VARIABLES
    pm,        \* which driver is bound: "apt", "yum" or "brew"
    issued,    \* the Executor calls of the current driver call, in order:
               \* command text, CommandOptions.UseSudo, and what came back
    ret,       \* what the driver call returned to its caller
    exited,    \* the process was terminated (log.Fatalf calls os.Exit(1))
    host,      \* the UnixHost being built, then the one NewHost returned
    ctor,      \* where NewHost stands: "none", "probeOS", "probeRelease",
               \* "done" or "failed"
    newHostRet,\* NewHost's return values: a Host (or nil) and an error
    pc,        \* where the calling task of the current call stands
    call,      \* the current call: its arguments and what was derived from them
    proc,      \* what was executed: path, argument vector or command text, stdin
    conn,      \* the resources that are open: client, session, local file
    io,        \* what the current call has touched: files opened, dials
    gor,       \* the background task of a remote RunCommand
    result,    \* what the current call returned: output, error, time of return
    xfer       \* CopyFile's session and writer task

pmVars == <<pm, issued, ret, exited>>

ctorVars == <<host, ctor, newHostRet>>

dispVars == <<pc, call, proc, conn, io, gor, result, xfer>>

hostVars == <<host, ctor, newHostRet, pc, call, proc, conn, io, gor, result, xfer>>

vars == <<pm, issued, ret, exited,
          host, ctor, newHostRet, pc, call, proc, conn, io, gor, result, xfer>>

(***************************************************************************)
(* The Executor seen by the drivers: CommandExecutor.RunCommand            *)
(***************************************************************************)
\* what one Executor.RunCommand call hands back: output text and error
ExecResults ==
    {[out |-> o, err |-> FALSE] : o \in Outputs} \cup {[out |-> <<>>, err |-> TRUE]}

Call(command, useSudo, r) ==
    [command |-> command, UseSudo |-> useSudo, out |-> r.out, err |-> r.err]

\* a driver call that returned: err is "nil", "exec" (the Executor's error
\* handed on unchanged) or "wrapped" (fmt.Errorf around it)
Ret(verb, err, lines, updates) ==
    [verb |-> verb, returned |-> TRUE, err |-> err, lines |-> lines, updates |-> updates]

\* a driver call that never returned
NoRet(verb) ==
    [verb |-> verb, returned |-> FALSE, err |-> "nil", lines |-> <<>>, updates |-> <<>>]

\* verbs returning ([]string, error): the lines of the output
ListVerb(verb, command, useSudo) ==
    \E r \in ExecResults :
        /\ issued' = <<Call(command, useSudo, r)>>
        /\ ret' = IF r.err THEN Ret(verb, "exec", <<>>, <<>>)
                  ELSE Ret(verb, "nil", Split(r.out, "\n"), <<>>)

\* verbs returning error only
ErrVerb(verb, command, useSudo) ==
    \E r \in ExecResults :
        /\ issued' = <<Call(command, useSudo, r)>>
        /\ ret' = Ret(verb, IF r.err THEN "exec" ELSE "nil", <<>>, <<>>)

\* "yum list installed"
CmdYumList == <<"y","u","m"," ","l","i","s","t"," ","i","n","s","t","a","l","l","e","d">>
\* "yum install -y "
CmdYumInstall == <<"y","u","m"," ","i","n","s","t","a","l","l"," ","-","y"," ">>
\* "yum remove -y "
CmdYumRemove == <<"y","u","m"," ","r","e","m","o","v","e"," ","-","y"," ">>
\* "yum upgrade -y "
CmdYumUpgrade == <<"y","u","m"," ","u","p","g","r","a","d","e"," ","-","y"," ">>
\* "yum check-update"
CmdYumCheckUpdate == <<"y","u","m"," ","c","h","e","c","k","-","u","p","d","a","t","e">>
\* "yum update -y"
CmdYumUpdate == <<"y","u","m"," ","u","p","d","a","t","e"," ","-","y">>

YumListPackages ==
    /\ pm = "yum" /\ ~exited
    /\ ListVerb("ListPackages", CmdYumList, FALSE)
    /\ UNCHANGED <<pm, exited, hostVars>>

YumAddPackage ==
    /\ pm = "yum" /\ ~exited
    /\ \E pkg \in Pkgs : ErrVerb("AddPackage", CmdYumInstall \o pkg, TRUE)
    /\ UNCHANGED <<pm, exited, hostVars>>

YumRemovePackage ==
    /\ pm = "yum" /\ ~exited
    /\ \E pkg \in Pkgs : ErrVerb("RemovePackage", CmdYumRemove \o pkg, TRUE)
    /\ UNCHANGED <<pm, exited, hostVars>>

YumUpgradePackage ==
    /\ pm = "yum" /\ ~exited
    /\ \E pkg \in Pkgs : ErrVerb("UpgradePackage", CmdYumUpgrade \o pkg, TRUE)
    /\ UNCHANGED <<pm, exited, hostVars>>

YumCheckOSUpdates ==
    /\ pm = "yum" /\ ~exited
    /\ ListVerb("CheckOSUpdates", CmdYumCheckUpdate, TRUE)
    /\ UNCHANGED <<pm, exited, hostVars>>

YumUpgradeAll ==
    /\ pm = "yum" /\ ~exited
    /\ \E r \in ExecResults :
        /\ issued' = <<Call(CmdYumUpdate, TRUE, r)>>
        /\ ret' = IF r.err THEN Ret("UpgradeAll", "wrapped", <<>>, <<>>)
                  ELSE Ret("UpgradeAll", "nil", <<>>, parseUpdates(r.out))
    /\ UNCHANGED <<pm, exited, hostVars>>

\* "apt list --installed"
CmdAptList == <<"a","p","t"," ","l","i","s","t"," ","-","-","i","n","s","t","a","l","l","e","d">>
\* "apt install -y "
CmdAptInstall == <<"a","p","t"," ","i","n","s","t","a","l","l"," ","-","y"," ">>
\* "apt remove -y "
CmdAptRemove == <<"a","p","t"," ","r","e","m","o","v","e"," ","-","y"," ">>
\* "apt upgrade -y "
CmdAptUpgrade == <<"a","p","t"," ","u","p","g","r","a","d","e"," ","-","y"," ">>
\* "apt upgrade -y"
CmdAptUpgradeAll == <<"a","p","t"," ","u","p","g","r","a","d","e"," ","-","y">>
\* "apt update"
CmdAptUpdate == <<"a","p","t"," ","u","p","d","a","t","e">>
\* "apt list --upgradable"
CmdAptListUpgradable == <<"a","p","t"," ","l","i","s","t"," ","-","-","u","p","g","r","a","d","a","b","l","e">>

AptListPackages ==
    /\ pm = "apt" /\ ~exited
    /\ ListVerb("ListPackages", CmdAptList, FALSE)
    /\ UNCHANGED <<pm, exited, hostVars>>

AptAddPackage ==
    /\ pm = "apt" /\ ~exited
    /\ \E pkg \in Pkgs : ErrVerb("AddPackage", CmdAptInstall \o pkg, TRUE)
    /\ UNCHANGED <<pm, exited, hostVars>>

AptRemovePackage ==
    /\ pm = "apt" /\ ~exited
    /\ \E pkg \in Pkgs : ErrVerb("RemovePackage", CmdAptRemove \o pkg, TRUE)
    /\ UNCHANGED <<pm, exited, hostVars>>

AptUpgradePackage ==
    /\ pm = "apt" /\ ~exited
    /\ \E pkg \in Pkgs : ErrVerb("UpgradePackage", CmdAptUpgrade \o pkg, TRUE)
    /\ UNCHANGED <<pm, exited, hostVars>>

AptUpgradeAll ==
    /\ pm = "apt" /\ ~exited
    /\ \E r \in ExecResults :
        /\ issued' = <<Call(CmdAptUpgradeAll, TRUE, r)>>
        /\ ret' = IF r.err THEN Ret("UpgradeAll", "wrapped", <<>>, <<>>)
                  ELSE Ret("UpgradeAll", "nil", <<>>, parseAptUpdates(r.out))
    /\ UNCHANGED <<pm, exited, hostVars>>

\* the refresh, then the listing; a failed refresh ends in log.Fatalf, which
\* terminates the process before the return statement that follows it
AptCheckOSUpdates ==
    /\ pm = "apt" /\ ~exited
    /\ \E r1 \in {[out |-> <<>>, err |-> b] : b \in BOOLEAN} :
        IF r1.err
        THEN /\ issued' = <<Call(CmdAptUpdate, TRUE, r1)>>
             /\ ret' = NoRet("CheckOSUpdates")
             /\ exited' = TRUE
        ELSE \E r2 \in ExecResults :
             /\ issued' = <<Call(CmdAptUpdate, TRUE, r1),
                            Call(CmdAptListUpgradable, FALSE, r2)>>
             /\ ret' = IF r2.err THEN Ret("CheckOSUpdates", "exec", <<>>, <<>>)
                       ELSE Ret("CheckOSUpdates", "nil", Split(r2.out, "\n"), <<>>)
             /\ exited' = FALSE
    /\ UNCHANGED <<pm, hostVars>>

\* "brew list --version"
CmdBrewList == <<"b","r","e","w"," ","l","i","s","t"," ","-","-","v","e","r","s","i","o","n">>
\* "brew install "
CmdBrewInstall == <<"b","r","e","w"," ","i","n","s","t","a","l","l"," ">>
\* "brew uninstall "
CmdBrewUninstall == <<"b","r","e","w"," ","u","n","i","n","s","t","a","l","l"," ">>
\* "brew upgrade "
CmdBrewUpgrade == <<"b","r","e","w"," ","u","p","g","r","a","d","e"," ">>
\* "brew outdated"
CmdBrewOutdated == <<"b","r","e","w"," ","o","u","t","d","a","t","e","d">>
\* "brew upgrade"
CmdBrewUpgradeAll == <<"b","r","e","w"," ","u","p","g","r","a","d","e">>

BrewListPackages ==
    /\ pm = "brew" /\ ~exited
    /\ ListVerb("ListPackages", CmdBrewList, FALSE)
    /\ UNCHANGED <<pm, exited, hostVars>>

BrewAddPackage ==
    /\ pm = "brew" /\ ~exited
    /\ \E pkg \in Pkgs : ErrVerb("AddPackage", CmdBrewInstall \o pkg, FALSE)
    /\ UNCHANGED <<pm, exited, hostVars>>

BrewRemovePackage ==
    /\ pm = "brew" /\ ~exited
    /\ \E pkg \in Pkgs : ErrVerb("RemovePackage", CmdBrewUninstall \o pkg, FALSE)
    /\ UNCHANGED <<pm, exited, hostVars>>

BrewUpgradePackage ==
    /\ pm = "brew" /\ ~exited
    /\ \E pkg \in Pkgs : ErrVerb("UpgradePackage", CmdBrewUpgrade \o pkg, FALSE)
    /\ UNCHANGED <<pm, exited, hostVars>>

BrewCheckOSUpdates ==
    /\ pm = "brew" /\ ~exited
    /\ ListVerb("CheckOSUpdates", CmdBrewOutdated, FALSE)
    /\ UNCHANGED <<pm, exited, hostVars>>

\* the escalation flag of the Homebrew upgrade-all, were it set like the
\* other ecosystems' upgrade-all
BrewUpgradeAllEscalated ==
    /\ pm = "brew" /\ ~exited
    /\ \E r \in ExecResults :
        /\ issued' = <<Call(CmdBrewUpgradeAll, TRUE, r)>>
        /\ ret' = IF r.err THEN Ret("UpgradeAll", "wrapped", <<>>, <<>>)
                  ELSE Ret("UpgradeAll", "nil", <<>>, parseUpdates(r.out))
    /\ UNCHANGED <<pm, exited, hostVars>>

BrewUpgradeAll ==
    /\ pm = "brew" /\ ~exited
    /\ \E r \in ExecResults :
        /\ issued' = <<Call(CmdBrewUpgradeAll, FALSE, r)>>
        /\ ret' = IF r.err THEN Ret("UpgradeAll", "wrapped", <<>>, <<>>)
                  ELSE Ret("UpgradeAll", "nil", <<>>, parseUpdates(r.out))
    /\ UNCHANGED <<pm, exited, hostVars>>

(***************************************************************************)
(* Host layer: construction, dispatcher, transport                         *)
(***************************************************************************)
\* the run timeout of a remote command (and the dial timeout), in seconds
Timeout == 5

Hostnames == {"localhost", "127.0.0.1", "web1"}

\* "Linux", "Darwin", "SunOS"
OSLinux == <<"L","i","n","u","x">>
OSDarwin == <<"D","a","r","w","i","n">>
OSSunOS == <<"S","u","n","O","S">>

\* the escalation password stored on the Host, and the one passed per call
HostSudoPassword == <<"h","1">>
CallSudoPassword == <<"c","1">>

\* "uname", "cat /etc/os-release", and the commands of the callers
CmdUname == <<"u","n","a","m","e">>
CmdCatRelease == <<"c","a","t"," ","/","e","t","c","/","o","s","-","r","e","l","e","a","s","e">>
Commands == {<<"w","h","o","a","m","i">>, <<"l","s"," ","-","l"," ","/","t","m","p">>}

\* "sudo -S ", "sudo", "-S"
SudoPrefix == <<"s","u","d","o"," ","-","S"," ">>
TokSudo == <<"s","u","d","o">>
TokDashS == <<"-","S">>

\* "incorrect password", "is not in the sudoers file"
PhraseIncorrect == <<"i","n","c","o","r","r","e","c","t"," ","p","a","s","s","w","o","r","d">>
PhraseSudoers == <<"i","s"," ","n","o","t"," ","i","n"," ","t","h","e"," ","s","u","d","o","e","r","s"," ","f","i","l","e">>

\* "ID=ubuntu", "ID=debian"
MarkUbuntu == <<"I","D","=","u","b","u","n","t","u">>
MarkDebian == <<"I","D","=","d","e","b","i","a","n">>

\* what a process or a remote command can produce: stdout, stderr, exit error
Outcome(stdout, stderr, err) == [stdout |-> stdout, stderr |-> stderr, err |-> err]

\* "sudo: 1 incorrect password attempt\n"
ErrIncorrect == <<"s","u","d","o",":"," ","1"," ","i","n","c","o","r","r","e","c","t"," ","p","a","s","s","w","o","r","d"," ","a","t","t","e","m","p","t","\n">>
\* "alice is not in the sudoers file.\n"
ErrSudoers == <<"a","l","i","c","e"," ","i","s"," ","n","o","t"," ","i","n"," ","t","h","e"," ","s","u","d","o","e","r","s"," ","f","i","l","e",".","\n">>

\* `uname`: "Linux\n", "Darwin\n", "SunOS\n", or a failure
UnameOutcomes ==
    {Outcome(<<"L","i","n","u","x","\n">>, <<>>, FALSE),
     Outcome(<<"D","a","r","w","i","n","\n">>, <<>>, FALSE),
     Outcome(<<"S","u","n","O","S","\n">>, <<>>, FALSE),
     Outcome(<<>>, <<>>, TRUE)}

\* `cat /etc/os-release`: "ID=ubuntu\n", "ID=debian\n", "ID=fedora\n", or a failure
ReleaseOutcomes ==
    {Outcome(<<"I","D","=","u","b","u","n","t","u","\n">>, <<>>, FALSE),
     Outcome(<<"I","D","=","d","e","b","i","a","n","\n">>, <<>>, FALSE),
     Outcome(<<"I","D","=","f","e","d","o","r","a","\n">>, <<>>, FALSE),
     Outcome(<<>>, <<>>, TRUE)}

\* a caller's command: "ok\n", a plain failure, or one of sudo's two
\* complaints on stderr, with either exit status
UserOutcomes ==
    {Outcome(<<"o","k","\n">>, <<>>, FALSE), Outcome(<<>>, <<>>, TRUE)}
    \cup {Outcome(<<>>, e, b) : e \in {ErrIncorrect, ErrSudoers}, b \in BOOLEAN}

OutcomesFor(caller) ==
    CASE caller = "determineOS" -> UnameOutcomes
      [] caller = "osRelease" -> ReleaseOutcomes
      [] OTHER -> UserOutcomes

\* isLocal, were the numeric loopback address left out
isLocalNameOnly(h) == h.HostString = "localhost"

\* UnixHost.isLocal
isLocal(h) == h.HostString = "localhost" \/ h.HostString = "127.0.0.1"

NoConfig == [User |-> "", Auth |-> <<>>]

\* getSSHConfig, were a failed key source followed by a try of the agent
getSSHConfigFallback(h, keysOK) ==
    IF h.Password # ""
    THEN [err |-> "nil", tried |-> <<>>,
          config |-> [User |-> h.User,
                      Auth |-> <<[method |-> "password", source |-> "none"]>>]]
    ELSE LET keyManager == IF h.KeyPassphrase # "" THEN "file" ELSE "agent"
         IN  [err |-> "nil",
              tried |-> IF keysOK THEN <<keyManager>> ELSE <<keyManager, "agent">>,
              config |-> [User |-> h.User,
                          Auth |-> <<[method |-> "publickeys",
                                      source |-> IF keysOK THEN keyManager
                                                 ELSE "agent"]>>]]

\* UnixHost.getSSHConfig; keysOK is whether the selected key source could
\* read the private keys.  tried lists the key sources that were consulted.
getSSHConfig(h, keysOK) ==
    IF h.Password # ""
    THEN [err |-> "nil", tried |-> <<>>,
          config |-> [User |-> h.User,
                      Auth |-> <<[method |-> "password", source |-> "none"]>>]]
    ELSE LET keyManager == IF h.KeyPassphrase # "" THEN "file" ELSE "agent"
         IN  IF ~keysOK
             THEN [err |-> "keys", tried |-> <<keyManager>>, config |-> NoConfig]
             ELSE [err |-> "nil", tried |-> <<keyManager>>,
                   config |-> [User |-> h.User,
                               Auth |-> <<[method |-> "publickeys",
                                           source |-> keyManager]>>]]

\* runCommandInternal, were the password piped in by the command text
\* ("echo <password> | sudo -S <cmd>")
runCommandInternalEcho(h, cmd, useSudo, sudoPassword) ==
    IF useSudo
    THEN [cmd |-> <<"e","c","h","o"," ">> \o h.SudoPassword \o <<" ","|"," ">>
                  \o SudoPrefix \o cmd,
          sudoPassword |-> h.SudoPassword]
    ELSE [cmd |-> cmd, sudoPassword |-> sudoPassword]

\* UnixHost.runCommandInternal: the command and the password handed on to
\* runLocalCommand / runRemoteCommand
runCommandInternal(h, cmd, useSudo, sudoPassword) ==
    IF useSudo
    THEN [cmd |-> SudoPrefix \o cmd, sudoPassword |-> h.SudoPassword]
    ELSE [cmd |-> cmd, sudoPassword |-> sudoPassword]

\* the scan for sudo's complaints in captured output
ScanSudo(outputStr) ==
    IF Contains(outputStr, PhraseIncorrect) THEN "IncorrectSudoPassword"
    ELSE IF Contains(outputStr, PhraseSudoers) THEN "NotInSudoers"
    ELSE "nil"

\* UnixHost.runLocalCommand on a process that behaves as o
runLocalCommand(cmd, useSudo, sudoPassword, o) ==
    LET parts == Fields(cmd)
        head == parts[1]
        rest == Tail(parts)
    IN  IF useSudo /\ sudoPassword # <<>>
        THEN LET outputStr == o.stdout \o o.stderr
                 scan == ScanSudo(outputStr)
             IN  [argv |-> <<TokSudo, TokDashS, head>> \o rest,
                  stdin |-> <<sudoPassword \o <<"\n">>>>,
                  captured |-> outputStr,
                  out |-> IF scan = "nil" /\ ~o.err THEN outputStr ELSE <<>>,
                  err |-> IF scan # "nil" THEN scan
                          ELSE IF o.err THEN "exec" ELSE "nil"]
        ELSE [argv |-> <<head>> \o rest,
              stdin |-> <<>>,
              captured |-> o.stdout,
              out |-> IF o.err THEN <<>> ELSE o.stdout,
              err |-> IF o.err THEN "exec" ELSE "nil"]

\* runRemoteCommand, the select case that receives from outputCh or errCh
RemoteResult(o) ==
    IF o.err THEN [out |-> <<>>, err |-> "exec"]
    ELSE LET outputStr == o.stdout \o o.stderr
             scan == ScanSudo(outputStr)
         IN  IF scan # "nil" THEN [out |-> <<>>, err |-> scan]
             ELSE [out |-> outputStr, err |-> "nil"]

\* the timeout case, were the partial output handed back with the error
TimeoutResultPartial == [out |-> <<"o","k">>, err |-> "timeout"]

\* runRemoteCommand, the select case of time.After
TimeoutResult == [out |-> <<>>, err |-> "timeout"]

NoCall ==
    [op |-> "none", caller |-> "none", cmd |-> <<>>, UseSudo |-> FALSE,
     SudoPassword |-> <<>>, cmdText |-> <<>>, sudoPassword |-> <<>>,
     config |-> NoConfig, tried |-> <<>>]

\* captured and exitErr: the output the code captured from the command and
\* whether the command ended with an error
NoProc ==
    [path |-> "none", argv |-> <<>>, text |-> <<>>, stdin |-> <<>>,
     captured |-> <<>>, exitErr |-> FALSE]

NoConn == [client |-> FALSE, session |-> FALSE, file |-> FALSE]

NoIO ==
    [fileOpens |-> 0, pings |-> 0, dials |-> 0, sessions |-> 0,
     pingOK |-> FALSE, handshakeOK |-> FALSE]

NoGor == [pc |-> "none", dur |-> 0]

NoResult == [out |-> <<>>, err |-> "nil", at |-> 0]

\* CopyFile's session and writer task: whether session.Run has started the
\* remote command, where the writer stands, what reached the input stream
NoXfer == [started |-> FALSE, writer |-> "none", wrote |-> <<>>]

\* the deferred client.Close, were it left out
CloseClientForgotten(c) == c

\* runRemoteCommand: defer client.Close()
CloseClient(c) == [c EXCEPT !.client = FALSE]

\* runRemoteCommand: defer session.Close()
CloseSession(c) == [c EXCEPT !.session = FALSE]

\* the call returns to its caller
Return(out, err, at) ==
    /\ pc' = "returned"
    /\ result' = [out |-> out, err |-> err, at |-> at]

\* RunCommand -> runCommandInternal, up to the first point where the
\* caller waits: the local path runs to its return, the remote path stops
\* before Dial
Dispatch(h, cmd, useSudo, sudoPassword, caller) ==
    LET in == runCommandInternal(h, cmd, useSudo, sudoPassword)
        c == [NoCall EXCEPT !.op = "RunCommand", !.caller = caller, !.cmd = cmd,
                            !.UseSudo = useSudo, !.SudoPassword = sudoPassword,
                            !.cmdText = in.cmd, !.sudoPassword = in.sudoPassword]
    IN  /\ io' = NoIO
        /\ conn' = NoConn
        /\ gor' = NoGor
        /\ xfer' = NoXfer
        /\ IF isLocal(h)
           THEN \E o \in OutcomesFor(caller) :
                    LET r == runLocalCommand(in.cmd, useSudo, in.sudoPassword, o)
                    IN  /\ call' = c
                        /\ proc' = [path |-> "local", argv |-> r.argv,
                                    text |-> <<>>, stdin |-> r.stdin,
                                    captured |-> r.captured, exitErr |-> o.err]
                        /\ Return(r.out, r.err, 0)
           ELSE IF ~h.SSHClient
           THEN /\ call' = c
                /\ proc' = NoProc
                /\ Return(<<>>, "noSSHClient", 0)
           ELSE \E keysOK \in BOOLEAN :
                    LET g == getSSHConfig(h, keysOK)
                    IN  /\ call' = [c EXCEPT !.config = g.config, !.tried = g.tried]
                        /\ proc' = NoProc
                        /\ IF g.err # "nil"
                           THEN Return(<<>>, g.err, 0)
                           ELSE pc' = "dial" /\ result' = NoResult

\* a call can be issued: the Host exists, no call is in progress and the
\* previous call's background tasks have run as far as they can
Ready ==
    /\ ctor = "done" /\ pc \in {"idle", "returned"}
    /\ gor.pc # "running" /\ xfer.writer \in {"none", "done"}

\* UnixHost.RunCommand
RunCommand ==
    /\ Ready
    /\ \E cmd \in Commands, useSudo \in BOOLEAN,
          sudoPassword \in {<<>>, CallSudoPassword} :
            Dispatch(host, cmd, useSudo, sudoPassword, "user")
    /\ UNCHANGED <<ctorVars, pmVars>>

\* runRemoteCommand: SSHClient.Dial
Dial ==
    /\ pc = "dial" /\ call.op = "RunCommand"
    /\ io' = [io EXCEPT !.dials = @ + 1]
    /\ \E ok \in BOOLEAN :
        IF ok
        THEN /\ conn' = [conn EXCEPT !.client = TRUE]
             /\ pc' = "session"
             /\ UNCHANGED result
        ELSE /\ Return(<<>>, "dial", 0)
             /\ UNCHANGED conn
    /\ UNCHANGED <<call, proc, gor, xfer, ctorVars, pmVars>>

\* runRemoteCommand: client.NewSession, the stdin of the session, and the
\* start of the background task that calls session.CombinedOutput
NewSession ==
    /\ pc = "session" /\ call.op = "RunCommand"
    /\ \E ok \in BOOLEAN :
        IF ok
        THEN /\ conn' = [conn EXCEPT !.session = TRUE]
             /\ io' = [io EXCEPT !.sessions = @ + 1]
             /\ proc' = [NoProc EXCEPT
                             !.path = "remote", !.text = call.cmdText,
                             !.stdin = IF call.UseSudo /\ call.sudoPassword # <<>>
                                       THEN <<call.sudoPassword \o <<"\n">>>>
                                       ELSE <<>>]
             /\ \E d \in 1..MaxDur : gor' = [pc |-> "running", dur |-> d]
             /\ pc' = "select"
             /\ UNCHANGED result
        ELSE /\ conn' = CloseClient(conn)
             /\ Return(<<>>, "session", 0)
             /\ UNCHANGED <<io, proc, gor>>
    /\ UNCHANGED <<call, xfer, ctorVars, pmVars>>

\* the command completes no later than the deadline: the background task
\* hands its output or error to the waiting select, which returns
GoFinish ==
    /\ pc = "select" /\ gor.pc = "running" /\ gor.dur <= Timeout
    /\ \E o \in OutcomesFor(call.caller) :
        LET r == RemoteResult(o)
        IN  /\ Return(r.out, r.err, gor.dur)
            /\ proc' = [proc EXCEPT !.captured = o.stdout \o o.stderr,
                                    !.exitErr = o.err]
    /\ gor' = [gor EXCEPT !.pc = "done"]
    /\ conn' = CloseClient(CloseSession(conn))
    /\ UNCHANGED <<call, io, xfer, ctorVars, pmVars>>

\* the deadline elapses no later than the command completes: the select
\* returns the timeout error; the background task is still running
TimerFire ==
    /\ pc = "select" /\ gor.pc = "running" /\ Timeout <= gor.dur
    /\ Return(TimeoutResult.out, TimeoutResult.err, Timeout)
    /\ conn' = CloseClient(CloseSession(conn))
    /\ UNCHANGED <<call, proc, io, gor, xfer, ctorVars, pmVars>>

\* after a timeout: CombinedOutput comes back in the background task, whose
\* send on the unbuffered channel finds no receiver
GoBlocked ==
    /\ pc # "select" /\ gor.pc = "running"
    /\ gor' = [gor EXCEPT !.pc = "blocked"]
    /\ UNCHANGED <<pc, call, proc, conn, io, result, xfer, ctorVars, pmVars>>

\* UnixHost.CopyFile, from its entry to the point before Dial
CopyFile ==
    /\ Ready
    /\ call' = [NoCall EXCEPT !.op = "CopyFile", !.caller = "user"]
    /\ proc' = NoProc
    /\ gor' = NoGor
    /\ xfer' = NoXfer
    /\ IF isLocal(host)
       THEN /\ io' = NoIO
            /\ conn' = NoConn
            /\ Return(<<>>, "sameHost", 0)
       ELSE \E opened \in BOOLEAN, stat \in BOOLEAN, keysOK \in BOOLEAN :
            LET g == getSSHConfig(host, keysOK)
            IN  /\ io' = [NoIO EXCEPT !.fileOpens = 1]
                /\ IF ~opened THEN conn' = NoConn /\ Return(<<>>, "open", 0)
                   ELSE IF ~stat THEN conn' = NoConn /\ Return(<<>>, "stat", 0)
                   ELSE IF g.err # "nil" THEN conn' = NoConn /\ Return(<<>>, g.err, 0)
                   ELSE /\ conn' = [NoConn EXCEPT !.file = TRUE]
                        /\ pc' = "copyDial"
                        /\ result' = NoResult
    /\ UNCHANGED <<ctorVars, pmVars>>

\* CopyFile: SSHClient.Dial; a nil SSHClient is a nil-interface call
CopyDial ==
    /\ pc = "copyDial"
    /\ IF ~host.SSHClient
       THEN pc' = "panic" /\ UNCHANGED <<conn, io, result>>
       ELSE /\ io' = [io EXCEPT !.dials = @ + 1]
            /\ \E ok \in BOOLEAN :
                IF ok
                THEN /\ conn' = [conn EXCEPT !.client = TRUE]
                     /\ pc' = "copySession"
                     /\ UNCHANGED result
                ELSE /\ conn' = [conn EXCEPT !.file = FALSE]
                     /\ Return(<<>>, "dial", 0)
    /\ UNCHANGED <<call, proc, gor, xfer, ctorVars, pmVars>>

\* CopyFile: client.NewSession and the start of the writer task
CopyNewSession ==
    /\ pc = "copySession"
    /\ \E ok \in BOOLEAN :
        IF ok
        THEN /\ conn' = [conn EXCEPT !.session = TRUE]
             /\ io' = [io EXCEPT !.sessions = @ + 1]
             /\ xfer' = [xfer EXCEPT !.writer = "pipe"]
             /\ pc' = "copyRun"
             /\ UNCHANGED result
        ELSE /\ conn' = NoConn
             /\ Return(<<>>, "session", 0)
             /\ UNCHANGED <<io, xfer>>
    /\ UNCHANGED <<call, proc, gor, ctorVars, pmVars>>

\* the writer task: session.StdinPipe, whose error is dropped.  Once
\* session.Run has started the command StdinPipe fails, w is nil, and the
\* use of w is a nil-interface call
WriterStdinPipe ==
    /\ xfer.writer = "pipe" /\ pc # "panic"
    /\ IF xfer.started \/ ~conn.session
       THEN pc' = "panic" /\ UNCHANGED xfer
       ELSE xfer' = [xfer EXCEPT !.writer = "header"] /\ UNCHANGED pc
    /\ UNCHANGED <<call, proc, conn, io, gor, result, ctorVars, pmVars>>

\* the writer task: the control line, the file bytes, the marker byte, and
\* the deferred w.Close.  Write and read errors are dropped: a write to a
\* closed session and a failed read of the local file add nothing
WriterStep ==
    /\ xfer.writer \in {"header", "bytes", "marker", "close"} /\ pc # "panic"
    /\ \E readOK \in BOOLEAN :
        LET item == xfer.writer
            lands == /\ conn.session
                     /\ item = "bytes" => (readOK /\ conn.file)
            next == CASE item = "header" -> "bytes"
                      [] item = "bytes" -> "marker"
                      [] item = "marker" -> "close"
                      [] item = "close" -> "done"
        IN  xfer' = [xfer EXCEPT !.writer = next,
                                 !.wrote = IF lands THEN Append(@, item) ELSE @]
    /\ UNCHANGED <<pc, call, proc, conn, io, gor, result, ctorVars, pmVars>>

\* CopyFile: session.Run starts the remote "scp -t"
CopyRunStart ==
    /\ pc = "copyRun"
    /\ xfer' = [xfer EXCEPT !.started = TRUE]
    /\ pc' = "copyWait"
    /\ UNCHANGED <<call, proc, conn, io, gor, result, ctorVars, pmVars>>

\* CopyFile: session.Run returns with the remote completion, and CopyFile
\* returns it; nothing of the writer task is consulted.  The remote command
\* can fail at any time.  It can succeed on a complete transfer whose stream
\* was closed, and also when the command was started before the writer
\* called StdinPipe: its input is then empty and already at end of input
CopyRunWait ==
    /\ pc = "copyWait"
    /\ \E ok \in BOOLEAN :
        /\ ok => \/ xfer.wrote = <<"header", "bytes", "marker", "close">>
                 \/ xfer.writer = "pipe"
        /\ Return(<<>>, IF ok THEN "nil" ELSE "exec", 0)
    /\ conn' = NoConn
    /\ UNCHANGED <<call, proc, io, gor, xfer, ctorVars, pmVars>>

\* IsReachable whose ping failure does not short-circuit
IsReachableNoShortCircuit ==
    /\ Ready
    /\ call' = [NoCall EXCEPT !.op = "IsReachable", !.caller = "user"]
    /\ proc' = NoProc
    /\ gor' = NoGor
    /\ xfer' = NoXfer
    /\ conn' = NoConn
    /\ IF host.HostString \in {"localhost", "127.0.0.1"}
       THEN io' = NoIO /\ Return(<<>>, "nil", 0)
       ELSE /\ \E pingOK \in BOOLEAN :
                io' = [NoIO EXCEPT !.pings = 1, !.pingOK = pingOK]
            /\ pc' = "sshable"
            /\ result' = NoResult
    /\ UNCHANGED <<ctorVars, pmVars>>

\* UnixHost.IsReachable with UnixHost.ping
IsReachable ==
    /\ Ready
    /\ call' = [NoCall EXCEPT !.op = "IsReachable", !.caller = "user"]
    /\ proc' = NoProc
    /\ gor' = NoGor
    /\ xfer' = NoXfer
    /\ conn' = NoConn
    /\ IF isLocal(host)
       THEN io' = NoIO /\ Return(<<>>, "nil", 0)
       ELSE \E pingOK \in BOOLEAN :
            /\ io' = [NoIO EXCEPT !.pings = 1, !.pingOK = pingOK]
            /\ IF pingOK THEN pc' = "sshable" /\ result' = NoResult
               ELSE Return(<<>>, "ping", 0)
    /\ UNCHANGED <<ctorVars, pmVars>>

\* UnixHost.sshable: getSSHConfig and SSHClient.Dial
Sshable ==
    /\ pc = "sshable"
    /\ IF isLocal(host)
       THEN Return(<<>>, "nil", 0) /\ UNCHANGED <<call, io, conn>>
       ELSE \E keysOK \in BOOLEAN, ok \in BOOLEAN :
            LET g == getSSHConfig(host, keysOK)
            IN  /\ call' = [call EXCEPT !.config = g.config, !.tried = g.tried]
                /\ IF g.err # "nil"
                   THEN Return(<<>>, g.err, 0) /\ UNCHANGED <<io, conn>>
                   ELSE IF ~host.SSHClient
                   THEN pc' = "panic" /\ UNCHANGED <<io, result, conn>>
                   ELSE /\ io' = [io EXCEPT !.dials = @ + 1, !.handshakeOK = ok]
                        /\ IF ok
                           THEN /\ conn' = [conn EXCEPT !.client = TRUE]
                                /\ pc' = "sshClose"
                                /\ UNCHANGED result
                           ELSE Return(<<>>, "sshTest", 0) /\ UNCHANGED conn
    /\ UNCHANGED <<proc, gor, xfer, ctorVars, pmVars>>

\* UnixHost.sshable: client.Close and the nil return
SshableClose ==
    /\ pc = "sshClose"
    /\ conn' = CloseClient(conn)
    /\ Return(<<>>, "nil", 0)
    /\ UNCHANGED <<call, proc, io, gor, xfer, ctorVars, pmVars>>

NoPM == [kind |-> "none", Executor |-> "nil"]

NoHost ==
    [HostString |-> "", User |-> "", Password |-> "", KeyPassphrase |-> "",
     OS |-> <<>>, SudoPassword |-> <<>>, SSHClient |-> FALSE, Executor |-> "nil",
     kind |-> "nil", PackageManager |-> NoPM]

\* NewHost returns nil and an error; os is the OS kind it had come to
ConstructionFails(err, os) ==
    /\ host' = NoHost
    /\ ctor' = "failed"
    /\ newHostRet' = [host |-> "nil", err |-> err, os |-> os]

\* the default case, were the bare UnixHost handed back
ClassifyDefaultReturnsHost(h) ==
    /\ host' = h
    /\ ctor' = "done"
    /\ newHostRet' = [host |-> "UnixHost", err |-> "nil", os |-> h.OS]

\* NewHost, the default case of the switch on unixHost.OS
ClassifyDefault(h) == ConstructionFails("unsupported operating system", h.OS)

\* NewHost, the switch on unixHost.OS
Classify(h) ==
    LET executor == IF h.Executor = "nil" THEN "default" ELSE h.Executor
    IN  IF h.OS = OSLinux
        THEN /\ host' = [h EXCEPT !.kind = "LinuxHost", !.Executor = executor]
             /\ ctor' = "probeRelease"
             /\ UNCHANGED newHostRet
             /\ Dispatch([h EXCEPT !.Executor = executor], CmdCatRelease,
                         FALSE, <<>>, "osRelease")
        ELSE IF h.OS = OSDarwin
        THEN /\ host' = [h EXCEPT !.kind = "MacOSHost", !.Executor = executor,
                                  !.PackageManager =
                                      [kind |-> "brew", Executor |-> executor]]
             /\ ctor' = "done"
             /\ newHostRet' = [host |-> "MacOSHost", err |-> "nil", os |-> h.OS]
             /\ UNCHANGED dispVars
        ELSE /\ ClassifyDefault(h)
             /\ UNCHANGED dispVars

\* NewHost, from its entry to the first probe (or to its return)
NewHost ==
    /\ ctor = "none" /\ pc = "idle"
    /\ \E hostname \in Hostnames, user \in {"", "alice"},
          password \in {"", "hostpw"}, keyPassphrase \in {"", "keypp"},
          os \in {<<>>, OSLinux, OSDarwin, OSSunOS}, sshClient \in BOOLEAN,
          sudoPassword \in {<<>>, HostSudoPassword},
          executor \in {"nil", "custom"}, currentUser \in {"", "alice"} :
        LET unixHost ==
                [NoHost EXCEPT !.HostString = hostname, !.User = user,
                               !.Password = password,
                               !.KeyPassphrase = keyPassphrase, !.OS = os,
                               !.SSHClient = sshClient,
                               !.SudoPassword = sudoPassword,
                               !.Executor = executor, !.kind = "UnixHost"]
        IN  IF user = "" /\ currentUser = ""
            THEN /\ ConstructionFails("could not get current user", <<>>)
                 /\ UNCHANGED dispVars
            ELSE LET h == [unixHost EXCEPT
                               !.User = IF user = "" THEN currentUser ELSE user]
                 IN  IF h.OS = <<>>
                     THEN /\ host' = h
                          /\ ctor' = "probeOS"
                          /\ UNCHANGED newHostRet
                          /\ Dispatch(h, CmdUname, FALSE, <<>>, "determineOS")
                     ELSE Classify(h)
    /\ UNCHANGED pmVars

\* NewHost, after determineOS has returned
NewHostAfterProbe ==
    /\ ctor = "probeOS" /\ pc = "returned" /\ call.caller = "determineOS"
    /\ IF result.err # "nil"
       THEN ConstructionFails(result.err, <<>>) /\ UNCHANGED dispVars
       ELSE Classify([host EXCEPT !.OS = TrimSpace(result.out)])
    /\ UNCHANGED pmVars

\* NewHost, after the read of /etc/os-release has returned (its error is
\* dropped): the driver is chosen and wired to the Executor
NewHostAfterRelease ==
    /\ ctor = "probeRelease" /\ pc = "returned" /\ call.caller = "osRelease"
    /\ LET osRelease == result.out
           kind == IF Contains(osRelease, MarkUbuntu) \/ Contains(osRelease, MarkDebian)
                   THEN "apt" ELSE "yum"
       IN  host' = [host EXCEPT !.PackageManager =
                                    [kind |-> kind, Executor |-> host.Executor]]
    /\ ctor' = "done"
    /\ newHostRet' = [host |-> "LinuxHost", err |-> "nil", os |-> host.OS]
    /\ UNCHANGED <<dispVars, pmVars>>

InitHost ==
    /\ host = NoHost
    /\ ctor = "none"
    /\ newHostRet = [host |-> "nil", err |-> "nil", os |-> <<>>]
    /\ pc = "idle"
    /\ call = NoCall
    /\ proc = NoProc
    /\ conn = NoConn
    /\ io = NoIO
    /\ gor = NoGor
    /\ result = NoResult
    /\ xfer = NoXfer

Init ==
    /\ InitHost
    /\ pm = "apt" /\ issued = <<>> /\ exited = FALSE
    /\ ret = [verb |-> "none", returned |-> FALSE, err |-> "nil",
              lines |-> <<>>, updates |-> <<>>]

Next ==
    \/ NewHost \/ NewHostAfterProbe \/ NewHostAfterRelease
    \/ RunCommand \/ Dial \/ NewSession \/ GoFinish \/ TimerFire \/ GoBlocked
    \/ CopyFile \/ CopyDial \/ CopyNewSession \/ CopyRunStart \/ CopyRunWait
    \/ WriterStdinPipe \/ WriterStep
    \/ IsReachable \/ Sshable \/ SshableClose

Spec == Init /\ [][Next]_vars


InitPM ==
    /\ pm \in {"apt", "yum", "brew"}
    /\ issued = <<>>
    /\ ret = NoRet("none")
    /\ exited = FALSE
    /\ InitHost

NextPM ==
    \/ YumListPackages \/ YumAddPackage \/ YumRemovePackage
    \/ YumUpgradePackage \/ YumCheckOSUpdates \/ YumUpgradeAll
    \/ AptListPackages \/ AptAddPackage \/ AptRemovePackage
    \/ AptUpgradePackage \/ AptCheckOSUpdates \/ AptUpgradeAll
    \/ BrewListPackages \/ BrewAddPackage \/ BrewRemovePackage
    \/ BrewUpgradePackage \/ BrewCheckOSUpdates \/ BrewUpgradeAll

SpecPM == InitPM /\ [][NextPM]_vars

(***************************************************************************)
(* Claims                                                                  *)
(***************************************************************************)
\* the Executor handed back exactly the text out to apt's UpgradeAll
AptUpgradedWith(out) ==
    /\ pm = "apt" /\ ret.verb = "UpgradeAll" /\ Len(issued) = 1
    /\ ~issued[1].err /\ issued[1].out = out

\* C1: on the output line "foo/xenial 2.0.1 amd64 [upgradable from: 1.9.3]"
\* parseAptUpdates yields exactly the Update foo 2.0.1; on "not a valid line"
\* it yields no record and no error.
C1_AptListingParsed ==
    /\ AptUpgradedWith(LineAptListing) =>
          /\ ret.err = "nil"
          /\ ret.updates = <<Update(<<"f","o","o">>, <<"2",".","0",".","1">>)>>
    /\ AptUpgradedWith(LineInvalid) => ret.err = "nil" /\ ret.updates = <<>>

\* "not in the sudoers file"
ClaimPhraseSudoers == <<"n","o","t"," ","i","n"," ","t","h","e"," ","s","u","d","o","e","r","s"," ","f","i","l","e">>

\* C2: a RunCommand call with escalation whose captured output contains
\* "incorrect password" (resp. "not in the sudoers file") returns
\* IncorrectSudoPassword (resp. NotInSudoers), on the local and on the remote
\* path alike, whatever the exit status and whether or not a password was set.
C2_SudoFailuresNamed ==
    (/\ pc = "returned" /\ call.op = "RunCommand" /\ call.UseSudo
     /\ proc.path \in {"local", "remote"}) =>
        /\ Contains(proc.captured, PhraseIncorrect) =>
              result.err = "IncorrectSudoPassword"
        /\ Contains(proc.captured, ClaimPhraseSudoers) =>
              result.err = "NotInSudoers"

\* a remote RunCommand that got as far as the race has returned
RemoteRaceOver ==
    pc = "returned" /\ call.op = "RunCommand" /\ gor.pc # "none"

\* C3: a remote RunCommand whose command has not completed when the run
\* timeout elapses returns the timeout error at that moment, before the
\* command completes, with empty output; a command that completes before the
\* deadline decides the result itself.
C3_TimeoutBeforeCompletion ==
    RemoteRaceOver =>
        /\ gor.dur > Timeout =>
              /\ result.err = "timeout" /\ result.out = <<>>
              /\ result.at = Timeout /\ result.at < gor.dur
              /\ gor.pc \in {"running", "blocked"}
        /\ gor.dur < Timeout =>
              /\ result.err # "timeout" /\ result.at = gor.dur
              /\ gor.pc = "done"
        /\ result.err = "timeout" => result.out = <<>> /\ proc.captured = <<>>

C3_Witness ==
    /\ RemoteRaceOver /\ gor.dur > Timeout
    /\ result.err = "timeout" /\ gor.pc = "running"

\* C4: every transport connection and session a call opened is closed when
\* the call returns, on every exit path.
C4_ClosedOnReturn == pc = "returned" => ~conn.client /\ ~conn.session

C4_Witness ==
    /\ pc = "returned" /\ call.op = "RunCommand" /\ result.err = "session"
    /\ io.dials = 1

\* the escalation passwords in play: the Host's and the call's
Secrets == {host.SudoPassword, call.SudoPassword} \ {<<>>}

\* C5: the escalation password never appears in the command text or the
\* argument vector that is executed; it goes to the input stream only, at
\* most once per call.
C5_PasswordOnlyOnStdin ==
    call.op = "RunCommand" =>
        /\ \A pw \in Secrets :
              /\ ~Contains(call.cmdText, pw)
              /\ ~Contains(proc.text, pw)
              /\ \A i \in DOMAIN proc.argv : ~Contains(proc.argv[i], pw)
        /\ Len(proc.stdin) <= 1
        /\ \A i \in DOMAIN proc.stdin :
              \E pw \in Secrets : proc.stdin[i] = pw \o <<"\n">>

C5_Witness ==
    /\ call.op = "RunCommand" /\ call.UseSudo /\ pc = "returned"
    /\ proc.path = "local" /\ Len(proc.stdin) = 1 /\ Len(proc.argv) > 2

\* C6: a session configuration carries exactly one authentication method:
\* password when a password is set, else file-based keys when a passphrase
\* is set, else agent-based keys; a failure of the selected key source is
\* returned as an error and no other source is tried.
C6_OneAuthMethod ==
    ctor # "failed" =>
        /\ call.config # NoConfig =>
              /\ Len(call.config.Auth) = 1
              /\ call.config.Auth[1] =
                    IF host.Password # ""
                    THEN [method |-> "password", source |-> "none"]
                    ELSE IF host.KeyPassphrase # ""
                    THEN [method |-> "publickeys", source |-> "file"]
                    ELSE [method |-> "publickeys", source |-> "agent"]
        /\ Len(call.tried) <= 1
        /\ host.Password # "" => call.tried = <<>>
        /\ (call.tried # <<>> /\ call.config = NoConfig) =>
              pc = "returned" /\ result.err = "keys"

C6_Witness ==
    /\ ctor = "done" /\ call.config # NoConfig
    /\ host.Password # "" /\ host.KeyPassphrase # ""
    /\ call.config.Auth[1].method = "password"

\* C7: NewHost returns a nil Host with an error, or a fully configured Host:
\* an unsupported OS kind or a failed probe gives an error and no Host, and
\* every Host returned has its Executor set and a driver wired to it.
C7_NilOrFullyConfigured ==
    /\ ctor \in {"none", "probeOS", "probeRelease"} => newHostRet.host = "nil"
    /\ ctor = "failed" => newHostRet.host = "nil" /\ newHostRet.err # "nil"
    /\ ctor = "done" =>
          /\ newHostRet.host # "nil" /\ newHostRet.err = "nil"
          /\ newHostRet.os \in {OSLinux, OSDarwin}
          /\ host.Executor # "nil"
          /\ host.PackageManager.kind # "none"
          /\ host.PackageManager.Executor = host.Executor
    /\ (call.caller = "determineOS" /\ pc = "returned" /\ result.err # "nil") =>
          ctor \in {"probeOS", "failed"}
    /\ (call.caller = "determineOS" /\ ctor \in {"done", "failed"}
        /\ result.err = "nil") =>
          newHostRet.os = TrimSpace(result.out)

C7_Witness ==
    /\ ctor = "failed" /\ call.caller = "determineOS"
    /\ newHostRet.os = OSSunOS /\ newHostRet.host = "nil"

\* C8: the Homebrew driver never issues a command with the escalation flag
\* set, whatever the verb and whatever calls came before.
C8_BrewNeverEscalates ==
    pm = "brew" => \A i \in DOMAIN issued : ~issued[i].UseSudo

C8_Witness ==
    pm = "brew" /\ ret.verb = "UpgradeAll" /\ Len(issued) = 1

\* C9: apt's check-updates issues the refresh first and the listing only
\* after it succeeded; a failed refresh is returned to the caller as an
\* error, the listing is not issued and the refresh is not retried.
C9_RefreshFailureReturned ==
    (pm = "apt" /\ ret.verb = "CheckOSUpdates") =>
        /\ Len(issued) >= 1
        /\ issued[1].command = CmdAptUpdate /\ issued[1].UseSudo
        /\ issued[1].err =>
              /\ Len(issued) = 1
              /\ ret.returned /\ ret.err # "nil"
        /\ ~issued[1].err =>
              Len(issued) = 2 /\ issued[2].command = CmdAptListUpgradable

\* C10: CopyFile on a local-alias host returns an error, before the local
\* file is opened and before anything is dialed.
C10_SameHostRefused ==
    (call.op = "CopyFile" /\ host.HostString \in {"localhost", "127.0.0.1"}) =>
        /\ pc = "returned" /\ result.err = "sameHost"
        /\ io.fileOpens = 0 /\ io.dials = 0 /\ io.sessions = 0
        /\ conn = NoConn

C10_Witness ==
    /\ call.op = "CopyFile" /\ host.HostString = "127.0.0.1"
    /\ pc = "returned" /\ result.err = "sameHost"

\* C11: for a host whose address is "localhost" or "127.0.0.1", IsReachable
\* returns success without a ping and without a dial
C11_LocalReachableNoIO ==
    (call.op = "IsReachable" /\ host.HostString \in {"localhost", "127.0.0.1"})
        => /\ pc = "returned"
           /\ result.err = "nil"
           /\ io.pings = 0
           /\ io.dials = 0

C11_Witness ==
    /\ call.op = "IsReachable"
    /\ host.HostString = "127.0.0.1"
    /\ pc = "returned"
    /\ result.err = "nil"
    /\ io = NoIO

\* C12: for a non-local host, IsReachable pings before it dials; a ping
\* failure returns the ping error and nothing is dialed; a handshake failure
\* returns an error other than the ping error; success is returned only
\* after both phases succeeded; no client is open once IsReachable returned
C12_PingThenHandshake ==
    (call.op = "IsReachable" /\ host.HostString \notin {"localhost", "127.0.0.1"})
        => /\ io.pings = 1
           /\ io.dials \in {0, 1}
           /\ io.dials = 1 => io.pingOK
           /\ pc = "sshable" => (io.pingOK /\ io.dials = 0)
           /\ pc = "returned" =>
                /\ ~io.pingOK => (result.err = "ping" /\ io.dials = 0)
                /\ (io.dials = 1 /\ ~io.handshakeOK) =>
                        result.err \notin {"nil", "ping"}
                /\ result.err = "nil" =>
                        (io.pingOK /\ io.dials = 1 /\ io.handshakeOK)
                /\ ~conn.client
           /\ pc = "sshClose" => (conn.client /\ io.handshakeOK)

C12_Witness ==
    /\ call.op = "IsReachable"
    /\ host.HostString = "web1"
    /\ pc = "returned"
    /\ result.err = "nil"
    /\ io.pingOK /\ io.handshakeOK

\* C13: CopyFile returns success only if the writer task obtained the input
\* stream and wrote the control line, the file bytes and the marker, and
\* closed the stream, all without error, and the remote command succeeded
C13_CopySuccessNeedsWriter ==
    (call.op = "CopyFile" /\ pc = "returned" /\ result.err = "nil")
        => /\ xfer.started
           /\ xfer.wrote = <<"header", "bytes", "marker", "close">>

\* C14: with escalation requested the command executed is the caller's
\* command behind exactly one "sudo -S" prefix, the same on the local path
\* (as its argument vector) and on the remote path (as its command text);
\* without escalation the caller's command is executed unchanged
C14_OneEscalationPrefix ==
    call.op = "RunCommand" =>
        LET wrapped == IF call.UseSudo THEN SudoPrefix \o call.cmd ELSE call.cmd
        IN  /\ proc.path = "local" => proc.argv = Fields(wrapped)
            /\ proc.path = "remote" => proc.text = wrapped

\* C15: the password given in the CommandOptions of a RunCommand call with
\* escalation is the one written to the input stream of that call's process
\* or session; the Host's stored password neither replaces nor erases it
C15_PerCallPasswordDelivered ==
    (/\ call.op = "RunCommand"
     /\ call.UseSudo
     /\ call.SudoPassword # <<>>
     /\ proc.path \in {"local", "remote"})
        => proc.stdin = <<call.SudoPassword \o <<"\n">>>>

\* C16: the background task of a remote RunCommand always terminates: its
\* hand-off of the output or the error completes in every interleaving, also
\* when the deadline elapsed first and the caller has returned.  A task that
\* is "blocked" is at its send on a channel only the returned call could
\* receive from, so it stays there for ever
C16_BackgroundTaskTerminates ==
    gor.pc # "blocked"

\* C17: in every interleaving of the writer task and the start of the remote
\* command the writer obtains the input stream, writes the control line, the
\* file bytes and the marker in that order and then closes the stream; it
\* never uses a stream it failed to obtain
C17_WriterObtainsStream ==
    LET rank == [x \in {"header", "bytes", "marker", "close"} |->
                    CASE x = "header" -> 1 [] x = "bytes" -> 2
                      [] x = "marker" -> 3 [] x = "close" -> 4]
    IN  /\ ~(pc = "panic" /\ xfer.writer = "pipe")
        /\ \A i, j \in DOMAIN xfer.wrote :
                i < j => rank[xfer.wrote[i]] < rank[xfer.wrote[j]]

====
